---- MODULE Spec2Model ----
(***************************************************************************)
(* Model of src/dataset.py: class Dataset, a loader of the march-ml-mania  *)
(* CSV files and its query methods.                                        *)
(*                                                                         *)
(* A CSV file on disk is a record [status, cols, rows]: status is "ok",    *)
(* "absent" or "malformed"; cols is the header row (a sequence of distinct *)
(* column names, in file order) and rows is the sequence of data rows,     *)
(* each a function from the table's column names to cell values.  A table  *)
(* in memory (a DataFrame) is a record [cols, rows] of the same shape. The *)
(* Season cell of a row is an integer; every other cell holds <<c, g>>,    *)
(* the value that game record g carries in column c, and NaN (pandas'      *)
(* missing value) is <<>>.                                                 *)
(***************************************************************************)
EXTENDS Integers, Sequences, FiniteSets, TLC

VARIABLES
    files,            \* the data directory: file name -> file
    phase,            \* "new" (no instance yet), "ready" (constructed), "failed"
    initError,        \* the exception __init__ raised ("none" when it did not)
    regular_results,  \* self.regular_results
    tourney_results,  \* self.tourney_results
    compact_headers,  \* self.compact_headers
    detailed_headers, \* self.detailed_headers
    teams,            \* self.teams: a dict, as a function team id -> name
    seasons,          \* self.seasons
    seeds,            \* self.seeds
    slots,            \* self.slots
    ret               \* the last query call: what was called and what came back

vars == <<files, phase, initError, regular_results, tourney_results,
          compact_headers, detailed_headers, teams, seasons, seeds, slots, ret>>

instance == <<regular_results, tourney_results, compact_headers,
              detailed_headers, teams, seasons, seeds, slots>>

----------------------------------------------------------------------------
(* Bounds and input domains *)

\* Largest number of data rows in an input file.
MaxRows == 2

\* The season below which rows are taken from the compact files.
Cutoff == 2003

NaN == <<>>
Absent == [status |-> "absent", cols |-> <<>>, rows |-> <<>>]
Malformed == [status |-> "malformed", cols |-> <<>>, rows |-> <<>>]
File(cols, rows) == [status |-> "ok", cols |-> cols, rows |-> rows]

Range(s) == {s[i] : i \in 1..Len(s)}

\* Sequences over S of length at most n.
SeqUpTo(S, n) == UNION {[1..k -> S] : k \in 0..n}

SeasonVals == {Cutoff - 1, Cutoff}
GameIds == {1, 2}

\* A data row of a results file with header cols: game record g of season s.
GameRow(cols, s, g) ==
    [c \in Range(cols) |-> IF c = "Season" THEN s ELSE <<c, g>>]

GameRows(cols) == {GameRow(cols, s, g) : s \in SeasonVals, g \in GameIds}

\* Header rows of the compact and detailed results files.
CompactHeaderChoices == {<<"Season", "Wteam">>, <<"Wteam", "Season", "Numot">>}
DetailedHeaderChoices == {<<"Season", "Wteam", "Wfgm">>,
                          <<"Wfgm", "Season", "Wteam", "Numot", "Lfgm">>}

\* A compact and a detailed results file with at most MaxRows rows between them.
ResultsPairs ==
    UNION {{<<File(ch, cr), File(dh, dr)>> :
                cr \in [1..k[1] -> GameRows(ch)], dr \in [1..k[2] -> GameRows(dh)]} :
            ch \in CompactHeaderChoices, dh \in DetailedHeaderChoices,
            k \in {kk \in (0..MaxRows) \X (0..MaxRows) : kk[1] + kk[2] <= MaxRows}}

TeamIds == {1101, 1102}
TeamNames == {"Abilene Chr", "Air Force"}
SeedLabels == {"W01", "X16"}

TeamsFiles ==
    {File(<<"Team_Id", "Team_Name">>, rs) :
        rs \in SeqUpTo([Team_Id : TeamIds, Team_Name : TeamNames], MaxRows)}

SeasonsFiles ==
    {File(<<"Season">>, rs) :
        rs \in SeqUpTo([Season : SeasonVals \cup {Cutoff - 2}], MaxRows + 1)}

SeedsFiles ==
    {File(<<"Season", "Seed", "Team">>, rs) :
        rs \in SeqUpTo([Season : SeasonVals, Seed : SeedLabels, Team : TeamIds], MaxRows)}

FileNames == <<"RegularSeasonCompactResults.csv", "TourneyCompactResults.csv",
               "RegularSeasonDetailedResults.csv", "TourneyDetailedResults.csv",
               "Teams.csv", "Seasons.csv", "TourneySeeds.csv", "TourneySlots.csv">>

\* A well-formed data directory with one or two rows per file.
DefaultFiles ==
    LET ch == <<"Season", "Wteam">>
        dh == <<"Season", "Wteam", "Wfgm">>
    IN  [n \in Range(FileNames) |->
          CASE n = "RegularSeasonCompactResults.csv" ->
                 File(ch, <<GameRow(ch, Cutoff - 1, 1), GameRow(ch, Cutoff, 1)>>)
            [] n = "TourneyCompactResults.csv" ->
                 File(ch, <<GameRow(ch, Cutoff - 1, 2)>>)
            [] n = "RegularSeasonDetailedResults.csv" ->
                 File(dh, <<GameRow(dh, Cutoff, 1)>>)
            [] n = "TourneyDetailedResults.csv" ->
                 File(dh, <<GameRow(dh, Cutoff, 2)>>)
            [] n = "Teams.csv" ->
                 File(<<"Team_Id", "Team_Name">>,
                      <<[Team_Id |-> 1101, Team_Name |-> "Abilene Chr"]>>)
            [] n = "Seasons.csv" ->
                 File(<<"Season">>, <<[Season |-> Cutoff - 1], [Season |-> Cutoff]>>)
            [] n = "TourneySeeds.csv" ->
                 File(<<"Season", "Seed", "Team">>,
                      <<[Season |-> Cutoff, Seed |-> "W01", Team |-> 1101]>>)
            [] OTHER ->
                 File(<<"Season", "Slot", "Strongseed", "Weakseed">>,
                      <<[Season |-> Cutoff, Slot |-> "R1W1",
                         Strongseed |-> "W01", Weakseed |-> "W16"]>>)]

----------------------------------------------------------------------------
(* pandas operations used by the class *)

\* Mutant of ReadError: a missing file reads as an empty frame.
ReadErrorLenient(f) == IF f.status = "malformed" THEN "ParserError" ELSE "none"

\* pd.read_csv(path): the exception it raises, or "none".
ReadError(f) ==
    IF f.status = "absent" THEN "FileNotFoundError"
    ELSE IF f.status = "malformed" THEN "ParserError" ELSE "none"

\* pd.read_csv(path) of a file that parses: the DataFrame.
read_csv(f) == [cols |-> f.cols, rows |-> f.rows]

\* df.loc[df['Season'] < year]
SeasonBefore(t, year) ==
    [cols |-> t.cols, rows |-> SelectSeq(t.rows, LAMBDA r : r["Season"] < year)]

\* Mutant of Reindex: absent cells are filled with the value of record 0.
ReindexFillZero(rows, cs) ==
    [i \in 1..Len(rows) |->
        [c \in cs |-> IF c \in DOMAIN rows[i] THEN rows[i][c] ELSE <<c, 0>>]]

\* Reindexing of the rows of a frame to the column set cs: absent cells are NaN.
Reindex(rows, cs) ==
    [i \in 1..Len(rows) |->
        [c \in cs |-> IF c \in DOMAIN rows[i] THEN rows[i][c] ELSE NaN]]

\* pd.concat((a, b)): the columns of a, then those of b that a lacks; the rows
\* of a, then the rows of b.  (Older pandas versions sort the union of the
\* columns instead; every query selects columns by an explicit header list, so
\* the order of the merged frame's columns is never observed.)
Concat(a, b) ==
    LET cols == a.cols \o SelectSeq(b.cols, LAMBDA c : c \notin Range(a.cols))
    IN  [cols |-> cols,
         rows |-> Reindex(a.rows, Range(cols)) \o Reindex(b.rows, Range(cols))]

\* df[headers] with a list of labels: KeyError when a label is no column of df.
Project(t, headers) ==
    IF Range(headers) \subseteq Range(t.cols)
    THEN [status |-> "ok",
          value |-> [cols |-> headers,
                     rows |-> [i \in 1..Len(t.rows) |->
                                 [c \in Range(headers) |-> t.rows[i][c]]]]]
    ELSE [status |-> "KeyError", value |-> NaN]

\* df.loc[df['Season'].isin(values)]
SeasonIsIn(t, values) ==
    [cols |-> t.cols, rows |-> SelectSeq(t.rows, LAMBDA r : r["Season"] \in Range(values))]

\* dict(zip(keys, values)) over the rows of a frame: a later row overwrites an
\* earlier one with the same key.
RECURSIVE DictZip(_, _, _)
DictZip(rows, k, v) ==
    IF Len(rows) = 0 THEN <<>>
    ELSE LET n    == Len(rows)
             head == DictZip(SubSeq(rows, 1, n - 1), k, v)
             last == rows[n]
         IN  [x \in DOMAIN head \cup {last[k]} |->
                 IF x = last[k] THEN last[v] ELSE head[x]]

\* Mutant of Unique: the distinct values in ascending order.
RECURSIVE Ascending(_)
Ascending(S) ==
    IF S = {} THEN <<>>
    ELSE LET m == CHOOSE x \in S : \A y \in S : x <= y
         IN  <<m>> \o Ascending(S \ {m})

UniqueSorted(s) == Ascending(Range(s))

\* Series.unique(): the distinct values in order of first appearance.
RECURSIVE Unique(_)
Unique(s) ==
    IF Len(s) = 0 THEN <<>>
    ELSE LET n    == Len(s)
             head == Unique(SubSeq(s, 1, n - 1))
         IN  IF s[n] \in Range(head) THEN head ELSE Append(head, s[n])

Column(t, c) == [i \in 1..Len(t.rows) |-> t.rows[i][c]]

----------------------------------------------------------------------------
(* class Dataset *)

\* The statements of __init__ that can raise, in program order: the reads of
\* lines 34-37, the two Season selections of lines 39-40, the read of Teams.csv
\* and the attribute access df.Team_Id, df.Team_Name of line 46, and the reads
\* of lines 47-50.
Read(n) == [kind |-> "read", file |-> n, columns |-> {}]
Use(n, cs, error) == [kind |-> error, file |-> n, columns |-> cs]

InitSteps ==
    <<Read("RegularSeasonCompactResults.csv"), Read("TourneyCompactResults.csv"),
      Read("RegularSeasonDetailedResults.csv"), Read("TourneyDetailedResults.csv"),
      Use("RegularSeasonCompactResults.csv", {"Season"}, "KeyError"),
      Use("TourneyCompactResults.csv", {"Season"}, "KeyError"),
      Read("Teams.csv"),
      Use("Teams.csv", {"Team_Id", "Team_Name"}, "AttributeError"),
      Read("Seasons.csv"), Read("TourneySeeds.csv"), Read("TourneySlots.csv")>>

\* The exception a statement of __init__ raises on the directory fs, or "none".
StepError(fs, step) ==
    IF step.kind = "read" THEN ReadError(fs[step.file])
    ELSE IF step.columns \subseteq Range(fs[step.file].cols) THEN "none" ELSE step.kind

\* The exception __init__ raises on the directory fs, or "none": the
\* statements run one after another, so the first that raises decides.
RECURSIVE FirstError(_, _)
FirstError(fs, i) ==
    IF i > Len(InitSteps) THEN "none"
    ELSE IF StepError(fs, InitSteps[i]) # "none" THEN StepError(fs, InitSteps[i])
    ELSE FirstError(fs, i + 1)

InitError(fs) == FirstError(fs, 1)

\* Lines 39-40: the compact rows of the seasons before the cutoff, then the
\* detailed frame.
Merge(comp, det) == Concat(SeasonBefore(comp, Cutoff), det)

\* A season argument: None, an int, or a list of ints.
None == [kind |-> "None", i |-> 0, l |-> <<>>]
IntArg(i) == [kind |-> "int", i |-> i, l |-> <<>>]
ListArg(l) == [kind |-> "list", i |-> 0, l |-> l]

ArgSeasons == SeasonVals \cup {Cutoff + 1}
SeasonArgs == {None} \cup {IntArg(i) : i \in {Cutoff, Cutoff + 1}}
                \cup {ListArg(l) : l \in {<<>>, <<Cutoff - 1, Cutoff>>, <<Cutoff + 1, Cutoff>>}}

\* Line 107/129: if type(season) is int: season = [season]
Normalize(season) == IF season.kind = "int" THEN ListArg(<<season.i>>) ELSE season

\* Lines 108-111 and 130-133 on the merged frame `results`.
Games(results, season, compact) ==
    LET s       == Normalize(season)
        headers == IF compact THEN compact_headers ELSE detailed_headers
    IN  IF s.kind = "None"
        THEN Project(results, headers)
        ELSE Project(SeasonIsIn(results, s.l), headers)

NoCall == [op |-> "none", arg |-> NaN, status |-> "none", value |-> NaN]

\* Dataset(datadir)
Construct ==
    /\ phase = "new"
    /\ IF InitError(files) # "none"
       THEN /\ phase' = "failed"
            /\ initError' = InitError(files)
            /\ UNCHANGED instance
       ELSE LET regular_comp == read_csv(files["RegularSeasonCompactResults.csv"])
                tourney_comp == read_csv(files["TourneyCompactResults.csv"])
                regular_det  == read_csv(files["RegularSeasonDetailedResults.csv"])
                tourney_det  == read_csv(files["TourneyDetailedResults.csv"])
                df           == read_csv(files["Teams.csv"])
            IN  /\ regular_results' = Merge(regular_comp, regular_det)
                /\ tourney_results' = Merge(tourney_comp, tourney_det)
                /\ compact_headers' = regular_comp.cols
                /\ detailed_headers' = regular_det.cols
                /\ teams' = DictZip(df.rows, "Team_Id", "Team_Name")
                /\ seasons' = read_csv(files["Seasons.csv"])
                /\ seeds' = read_csv(files["TourneySeeds.csv"])
                /\ slots' = read_csv(files["TourneySlots.csv"])
                /\ phase' = "ready"
                /\ initError' = "none"
    /\ UNCHANGED <<files, ret>>

\* Mutant of TeamOf: self.teams.get(id), None for an unknown id.
TeamOfGet(id) ==
    [status |-> "ok", value |-> IF id \in DOMAIN teams THEN teams[id] ELSE "None"]

\* self.teams[id]
TeamOf(id) ==
    IF id \in DOMAIN teams
    THEN [status |-> "ok", value |-> teams[id]]
    ELSE [status |-> "KeyError", value |-> NaN]

getTeam(id) ==
    /\ phase = "ready"
    /\ ret' = [op |-> "getTeam", arg |-> id,
               status |-> TeamOf(id).status, value |-> TeamOf(id).value]
    /\ UNCHANGED <<files, phase, initError, instance>>

\* self.seasons.Season.unique().tolist()
Years == Unique(Column(seasons, "Season"))

getYears ==
    /\ phase = "ready"
    /\ ret' = [op |-> "getYears", arg |-> NaN, status |-> "ok", value |-> Years]
    /\ UNCHANGED <<files, phase, initError, instance>>

\* Mutant of SeedsOf: the season filter is dropped.
SeedsOfAnySeason(season) == DictZip(seeds.rows, "Team", "Seed")

\* df = self.seeds.loc[self.seeds['Season'] == season]; dict(zip(df.Team, df.Seed))
SeedsOf(season) ==
    DictZip(SelectSeq(seeds.rows, LAMBDA r : r["Season"] = season), "Team", "Seed")

getSeeds(season) ==
    /\ phase = "ready"
    /\ ret' = [op |-> "getSeeds", arg |-> season, status |-> "ok", value |-> SeedsOf(season)]
    /\ UNCHANGED <<files, phase, initError, instance>>

\* Mutant of getRegularGames: the filtered frame is stored back into the
\* instance.
getRegularGamesInPlace(season, compact) ==
    /\ phase = "ready"
    /\ LET r == Games(regular_results, season, compact)
           s == Normalize(season)
       IN  /\ ret' = [op |-> "getRegularGames", arg |-> <<season, compact>>,
                      status |-> r.status, value |-> r.value]
           /\ regular_results' = IF s.kind = "None" THEN regular_results
                                  ELSE SeasonIsIn(regular_results, s.l)
    /\ UNCHANGED <<files, phase, initError, tourney_results, compact_headers,
                   detailed_headers, teams, seasons, seeds, slots>>

getRegularGames(season, compact) ==
    /\ phase = "ready"
    /\ LET r == Games(regular_results, season, compact)
       IN  ret' = [op |-> "getRegularGames", arg |-> <<season, compact>>,
                   status |-> r.status, value |-> r.value]
    /\ UNCHANGED <<files, phase, initError, instance>>

\* Mutant of getTourneyGames: the projection uses the tournament files' own
\* header rows.
getTourneyGamesOwnHeaders(season, compact) ==
    /\ phase = "ready"
    /\ LET s       == Normalize(season)
           headers == IF compact THEN files["TourneyCompactResults.csv"].cols
                                 ELSE files["TourneyDetailedResults.csv"].cols
           r       == IF s.kind = "None" THEN Project(tourney_results, headers)
                      ELSE Project(SeasonIsIn(tourney_results, s.l), headers)
       IN  ret' = [op |-> "getTourneyGames", arg |-> <<season, compact>>,
                   status |-> r.status, value |-> r.value]
    /\ UNCHANGED <<files, phase, initError, instance>>

getTourneyGames(season, compact) ==
    /\ phase = "ready"
    /\ LET r == Games(tourney_results, season, compact)
       IN  ret' = [op |-> "getTourneyGames", arg |-> <<season, compact>>,
                   status |-> r.status, value |-> r.value]
    /\ UNCHANGED <<files, phase, initError, instance>>

----------------------------------------------------------------------------
(* Specifications *)

EmptyTable == [cols |-> <<>>, rows |-> <<>>]

\* Before construction there is no instance: its attributes are unset.
Unset ==
    /\ phase = "new"
    /\ initError = "none"
    /\ regular_results = EmptyTable
    /\ tourney_results = EmptyTable
    /\ compact_headers = <<>>
    /\ detailed_headers = <<>>
    /\ teams = <<>>
    /\ seasons = EmptyTable
    /\ seeds = EmptyTable
    /\ slots = EmptyTable
    /\ ret = NoCall

With(fs, n, f) == [fs EXCEPT ![n] = f]

\* Directories whose regular-season results files vary in header and rows.
RegularDirs ==
    {With(With(DefaultFiles, "RegularSeasonCompactResults.csv", p[1]),
          "RegularSeasonDetailedResults.csv", p[2]) : p \in ResultsPairs}

\* Directories whose tournament results files vary in header and rows, under
\* each header pair of the regular-season files.
TourneyDirs ==
    {With(With(With(With(DefaultFiles,
          "RegularSeasonCompactResults.csv", File(rc, <<GameRow(rc, Cutoff - 1, 1)>>)),
          "RegularSeasonDetailedResults.csv", File(rd, <<GameRow(rd, Cutoff, 1)>>)),
          "TourneyCompactResults.csv", p[1]),
          "TourneyDetailedResults.csv", p[2]) :
        rc \in CompactHeaderChoices, rd \in DetailedHeaderChoices, p \in ResultsPairs}

\* Directories with one game per results file, under each choice of the four
\* results files' headers.
HeaderDirs ==
    {With(With(With(With(DefaultFiles,
          "RegularSeasonCompactResults.csv", File(rc, <<GameRow(rc, Cutoff - 1, 1)>>)),
          "RegularSeasonDetailedResults.csv", File(rd, <<GameRow(rd, Cutoff, 1)>>)),
          "TourneyCompactResults.csv", File(tc, <<GameRow(tc, Cutoff - 1, 2)>>)),
          "TourneyDetailedResults.csv", File(td, <<GameRow(td, Cutoff, 2)>>)) :
        rc \in CompactHeaderChoices, rd \in DetailedHeaderChoices,
        tc \in CompactHeaderChoices, td \in DetailedHeaderChoices}

\* Directories whose team, season or seed file varies.
LookupDirs ==
    {With(DefaultFiles, "Teams.csv", f) : f \in TeamsFiles}
    \cup {With(DefaultFiles, "Seasons.csv", f) : f \in SeasonsFiles}
    \cup {With(DefaultFiles, "TourneySeeds.csv", f) : f \in SeedsFiles}

\* A file that parses but lacks the columns __init__ uses of it.
LackingColumns(n) ==
    IF n = "Teams.csv"
    THEN File(<<"Team_Name">>, <<[Team_Name |-> "Abilene Chr"]>>)
    ELSE File(<<"Wteam">>, <<[Wteam |-> <<"Wteam", 1>>]>>)

ColumnsUsed == {"RegularSeasonCompactResults.csv", "TourneyCompactResults.csv", "Teams.csv"}

\* Directories in which each file is present, absent or unparseable, or parses
\* without the columns __init__ uses of it.
BrokenDirs ==
    {[n \in Range(FileNames) |->
        CASE st[n] = "ok" -> DefaultFiles[n]
          [] st[n] = "absent" -> Absent
          [] st[n] = "malformed" -> Malformed
          [] OTHER -> LackingColumns(n)] :
        st \in {t \in [Range(FileNames) -> {"ok", "absent", "malformed", "lacking"}] :
                  \A n \in Range(FileNames) : t[n] = "lacking" => n \in ColumnsUsed}}

Queries ==
    \/ \E id \in TeamIds \cup {1103} : getTeam(id)
    \/ getYears
    \/ \E season \in ArgSeasons : getSeeds(season)
    \/ \E season \in SeasonArgs, compact \in BOOLEAN : getRegularGames(season, compact)
    \/ \E season \in SeasonArgs, compact \in BOOLEAN : getTourneyGames(season, compact)

Next == Construct \/ Queries

InitGames == files \in RegularDirs \cup TourneyDirs /\ Unset
InitLookup == files \in LookupDirs /\ Unset
InitLoad == files \in BrokenDirs /\ Unset
Init == files \in HeaderDirs /\ Unset

SpecGames == InitGames /\ [][Next]_vars
SpecLookup == InitLookup /\ [][Next]_vars
SpecLoad == InitLoad /\ [][Next]_vars
Spec == Init /\ [][Next]_vars

----------------------------------------------------------------------------
(* Properties.  They are stated against the input files and the merged      *)
(* frames by row index and cell, not through the operators above.           *)

RegularCompactFile == files["RegularSeasonCompactResults.csv"]
RegularDetailedFile == files["RegularSeasonDetailedResults.csv"]
TourneyCompactFile == files["TourneyCompactResults.csv"]
TourneyDetailedFile == files["TourneyDetailedResults.csv"]

IsGamesCall == ret.op \in {"getRegularGames", "getTourneyGames"}

\* The merged frame, the compact file and the detailed file the last games
\* call is about.
CallMerged == IF ret.op = "getRegularGames" THEN regular_results ELSE tourney_results
CallCompactFile == IF ret.op = "getRegularGames" THEN RegularCompactFile ELSE TourneyCompactFile
CallDetailedFile == IF ret.op = "getRegularGames" THEN RegularDetailedFile ELSE TourneyDetailedFile

\* The set of seasons a season argument other than None stands for.
SeasonSet(season) == IF season.kind = "int" THEN {season.i} ELSE Range(season.l)

\* The indices of the rows of frame t whose Season is in S, and the position
\* of such a row among them.
Matching(t, S) == {i \in 1..Len(t.rows) : t.rows[i]["Season"] \in S}
Rank(t, S, i) == Cardinality({k \in Matching(t, S) : k <= i})

\* The index in frame t of the row that a games call with season argument
\* `season` returns at position j.
SourceIndex(t, season, j) ==
    IF season.kind = "None" THEN j
    ELSE CHOOSE i \in Matching(t, SeasonSet(season)) : Rank(t, SeasonSet(season), i) = j

\* Row r cut down to the columns cs.
Restrict(r, cs) == [c \in cs |-> r[c]]

\* The last index of rows that satisfies P.
LastIndex(rows, P(_)) ==
    CHOOSE i \in 1..Len(rows) : P(rows[i]) /\ \A k \in (i + 1)..Len(rows) : ~P(rows[k])

\* C1: for a season argument that is an int or a collection of ints, a games
\* call returns a table (never an error) whose rows are exactly the rows of the
\* merged frame whose Season is in the argument's set: as many rows as match,
\* each with a Season of the set, in the merged frame's order.
C1_FilterReturnsExactlyMatchingRows ==
    (IsGamesCall /\ ret.arg[1].kind # "None") =>
        LET S == SeasonSet(ret.arg[1])
            M == Matching(CallMerged, S)
        IN  /\ ret.status = "ok"
            /\ Len(ret.value.rows) = Cardinality(M)
            /\ \A j \in 1..Len(ret.value.rows) : ret.value.rows[j]["Season"] \in S
            /\ \A i \in M :
                 ret.value.rows[Rank(CallMerged, S, i)]
                   = Restrict(CallMerged.rows[i], Range(ret.value.cols))

\* The number of rows of file f whose Season satisfies P.
CountRows(f, P(_)) == Cardinality({i \in 1..Len(f.rows) : P(f.rows[i]["Season"])})

BeforeCutoff(s) == s < Cutoff
FromCutoff(s) == s >= Cutoff

\* C2: after construction each merged frame has as many rows as its compact
\* file has before the cutoff plus its detailed file has at or after the
\* cutoff, and getRegularGames() without a season returns that many rows.
C2_MergedIsBasicBeforeCutoffPlusExtendedFromCutoff ==
    /\ phase = "ready" =>
         /\ Len(regular_results.rows)
              = CountRows(RegularCompactFile, BeforeCutoff)
                + CountRows(RegularDetailedFile, FromCutoff)
         /\ Len(tourney_results.rows)
              = CountRows(TourneyCompactFile, BeforeCutoff)
                + CountRows(TourneyDetailedFile, FromCutoff)
    /\ (ret.op = "getRegularGames" /\ ret.arg[1].kind = "None") =>
         /\ ret.status = "ok"
         /\ Len(ret.value.rows)
              = CountRows(RegularCompactFile, BeforeCutoff)
                + CountRows(RegularDetailedFile, FromCutoff)

TeamsFile == files["Teams.csv"]
SeasonsFile == files["Seasons.csv"]
SeedsFile == files["TourneySeeds.csv"]

\* C3: getTeam(id) returns the name recorded for id in Teams.csv (that of the
\* last row with the id, when several rows share it), fails with KeyError for
\* an id the file lacks, and leaves the instance as it was either way.
C3_GetTeamReturnsRecordedNameOrKeyError ==
    [][ret'.op = "getTeam" =>
         LET id      == ret'.arg
             HasId(r) == r.Team_Id = id
             present == \E i \in 1..Len(TeamsFile.rows) : HasId(TeamsFile.rows[i])
         IN  /\ present =>
                  /\ ret'.status = "ok"
                  /\ ret'.value = TeamsFile.rows[LastIndex(TeamsFile.rows, HasId)].Team_Name
             /\ ~present => ret'.status = "KeyError"
             /\ instance' = instance
             /\ files' = files]_vars

\* A getTeam call found its id in a Teams.csv that lists the id twice.
C3_Witness ==
    /\ ret.op = "getTeam"
    /\ ret.status = "ok"
    /\ Len(TeamsFile.rows) = 2
    /\ TeamsFile.rows[1].Team_Id = ret.arg
    /\ TeamsFile.rows[2].Team_Id = ret.arg
    /\ TeamsFile.rows[1].Team_Name # TeamsFile.rows[2].Team_Name

\* C4: getSeeds(season) returns, without failing, a mapping whose keys are
\* exactly the teams of the seed rows of that season, each mapped to the seed
\* of the last such row of the team; it is empty when the season has no rows.
C4_GetSeedsMapsTeamsOfSeason ==
    ret.op = "getSeeds" =>
        LET rows == SeedsFile.rows
            InSeason(r) == r.Season = ret.arg
        IN  /\ ret.status = "ok"
            /\ DOMAIN ret.value = {rows[i].Team : i \in {k \in 1..Len(rows) : InSeason(rows[k])}}
            /\ \A t \in DOMAIN ret.value :
                 LET Of(r) == InSeason(r) /\ r.Team = t
                 IN  ret.value[t] = rows[LastIndex(rows, Of)].Seed
            /\ (\A i \in 1..Len(rows) : ~InSeason(rows[i])) => ret.value = <<>>

\* getSeeds answered for a season in which one team has two seed rows with
\* different labels.
C4_Witness ==
    /\ ret.op = "getSeeds"
    /\ Len(SeedsFile.rows) = 2
    /\ SeedsFile.rows[1].Season = ret.arg
    /\ SeedsFile.rows[2].Season = ret.arg
    /\ SeedsFile.rows[1].Team = SeedsFile.rows[2].Team
    /\ SeedsFile.rows[1].Seed # SeedsFile.rows[2].Seed
    /\ DOMAIN ret.value = {SeedsFile.rows[1].Team}

\* The index of the first row of Seasons.csv whose Season is y.
FirstRowOf(y) ==
    CHOOSE i \in 1..Len(SeasonsFile.rows) :
        /\ SeasonsFile.rows[i].Season = y
        /\ \A k \in 1..(i - 1) : SeasonsFile.rows[k].Season # y

\* C5: getYears returns every Season value of the season table exactly once,
\* in the order of the values' first rows in the table.
C5_GetYearsDistinctInFirstOccurrenceOrder ==
    ret.op = "getYears" =>
        LET ys == ret.value
        IN  /\ ret.status = "ok"
            /\ Range(ys) = {SeasonsFile.rows[i].Season : i \in 1..Len(SeasonsFile.rows)}
            /\ \A i, j \in 1..Len(ys) : i # j => ys[i] # ys[j]
            /\ \A i, j \in 1..Len(ys) : i < j => FirstRowOf(ys[i]) < FirstRowOf(ys[j])

\* getYears answered on a season table that repeats a year and is not in
\* ascending order.
C5_Witness ==
    /\ ret.op = "getYears"
    /\ Len(SeasonsFile.rows) = 3
    /\ SeasonsFile.rows[1].Season = SeasonsFile.rows[3].Season
    /\ SeasonsFile.rows[2].Season < SeasonsFile.rows[1].Season
    /\ Len(ret.value) = 2

\* C6: once the instance is constructed no call, failing or not, changes any
\* of its tables or header lists, and therefore every call with given
\* arguments returns after any step what it returned before it.
C6_QueriesLeaveInstanceUnchanged ==
    [][phase = "ready" =>
         /\ teams' = teams
         /\ seasons' = seasons
         /\ seeds' = seeds
         /\ slots' = slots
         /\ regular_results' = regular_results
         /\ tourney_results' = tourney_results
         /\ compact_headers' = compact_headers
         /\ detailed_headers' = detailed_headers
         /\ \A id \in TeamIds \cup {1103} : TeamOf(id)' = TeamOf(id)
         /\ Years' = Years
         /\ \A season \in ArgSeasons : SeedsOf(season)' = SeedsOf(season)
         /\ \A season \in SeasonArgs, compact \in BOOLEAN :
              /\ Games(regular_results, season, compact)'
                   = Games(regular_results, season, compact)
              /\ Games(tourney_results, season, compact)'
                   = Games(tourney_results, season, compact)]_vars

\* A call failed on a constructed instance.
C6_Witness ==
    /\ phase = "ready"
    /\ ret.op = "getTeam"
    /\ ret.status = "KeyError"

\* File n is there and parses.
Readable(n) == files[n].status = "ok"
HasColumns(n, cs) == Readable(n) => cs \subseteq Range(files[n].cols)

SomeFileAbsent == \E n \in Range(FileNames) : files[n].status = "absent"

\* Position k of the read order: every file before it is readable.
ReadableBefore(k) == \A i \in 1..(k - 1) : Readable(FileNames[i])

\* The position in the read order of the first file that is absent or does
\* not parse.
FirstUnreadable ==
    CHOOSE k \in 1..Len(FileNames) : ~Readable(FileNames[k]) /\ ReadableBefore(k)

\* The compact results files have their Season column (lines 39-40, which run
\* once the four results files are read).
SeasonColumnsThere ==
    /\ HasColumns("RegularSeasonCompactResults.csv", {"Season"})
    /\ HasColumns("TourneyCompactResults.csv", {"Season"})

\* Teams.csv has the two columns line 46 uses (it runs once Teams.csv is read).
TeamColumnsThere == HasColumns("Teams.csv", {"Team_Id", "Team_Name"})

NoInstance ==
    /\ regular_results = EmptyTable
    /\ tourney_results = EmptyTable
    /\ compact_headers = <<>>
    /\ detailed_headers = <<>>
    /\ teams = <<>>
    /\ seasons = EmptyTable
    /\ seeds = EmptyTable
    /\ slots = EmptyTable
    /\ ret = NoCall

\* C7 as stated: when any input file is absent, whatever the other files hold,
\* construction fails with FileNotFoundError and yields no instance.
C7_AbsentFileAlwaysFileNotFound ==
    (phase # "new" /\ SomeFileAbsent) =>
        /\ phase = "failed"
        /\ initError = "FileNotFoundError"
        /\ NoInstance

\* C7, amended: when any input file is absent construction fails and yields
\* no instance to query; the exception is that of the first statement of the
\* constructor that fails, which is FileNotFoundError exactly when the first
\* file in read order that cannot be read is absent and no column the
\* constructor uses before reading it (Season of the compact results files
\* from the fifth read on, Team_Id and Team_Name of Teams.csv from the sixth
\* on) is missing from its file.
C7_AbsentFileFailsWithFirstFailingStatementsError ==
    (phase # "new" /\ SomeFileAbsent) =>
        LET k == FirstUnreadable
            columnsMissingBefore ==
                \/ k > 4 /\ ~SeasonColumnsThere
                \/ k > 5 /\ ~TeamColumnsThere
        IN  /\ phase = "failed"
            /\ NoInstance
            /\ initError # "none"
            /\ (initError = "FileNotFoundError")
                 <=> (files[FileNames[k]].status = "absent" /\ ~columnsMissingBefore)

\* Construction failed with FileNotFoundError on a file that is read after
\* all four results files were read.
C7_Witness ==
    /\ phase = "failed"
    /\ initError = "FileNotFoundError"
    /\ SomeFileAbsent
    /\ FirstUnreadable > 4
    /\ NoInstance

\* C8: a games call returns a table whose columns are the header row of the
\* compact file (compact true) or of the detailed file (compact false) of the
\* results the call is about, in the file's order.
C8_ColumnsAreHeaderOfCorrespondingFile ==
    IsGamesCall =>
        /\ ret.status = "ok"
        /\ ret.value.cols = IF ret.arg[2] THEN CallCompactFile.cols ELSE CallDetailedFile.cols

\* The columns the detailed file of a pair has and its compact file lacks.
ExtendedOnly(comp, det) == Range(det.cols) \ Range(comp.cols)

\* Cell c of row r is null.  Season is a column of every results file and its
\* cells are integers: it is never missing.
IsNull(r, c) == c # "Season" /\ r[c] = NaN

\* Rows 1..n of a merged frame are the ones taken from the compact file comp.
FromBasic(comp) == CountRows(comp, BeforeCutoff)

MergedNulls(merged, comp, det) ==
    /\ Len(merged.rows) = FromBasic(comp) + Len(det.rows)
    /\ \A i \in 1..Len(merged.rows) :
         IF i <= FromBasic(comp)
         THEN /\ merged.rows[i]["Season"] < Cutoff
              /\ \A c \in ExtendedOnly(comp, det) : IsNull(merged.rows[i], c)
         ELSE \A c \in Range(det.cols) :
                 /\ merged.rows[i][c] = det.rows[i - FromBasic(comp)][c]
                 /\ ~IsNull(merged.rows[i], c)

\* C9: in each merged frame the rows taken from the compact file are null in
\* every column only the detailed file has, and the rows taken from the
\* detailed file keep the detailed file's values; a games call with compact
\* false returns null in such a column for exactly the rows from the compact
\* file.
C9_ExtendedOnlyFieldsNullExactlyForBasicRows ==
    /\ phase = "ready" =>
         /\ MergedNulls(regular_results, RegularCompactFile, RegularDetailedFile)
         /\ MergedNulls(tourney_results, TourneyCompactFile, TourneyDetailedFile)
    /\ (IsGamesCall /\ ~ret.arg[2] /\ ret.status = "ok") =>
         \A j \in 1..Len(ret.value.rows) :
            \A c \in ExtendedOnly(CallCompactFile, CallDetailedFile) \cap Range(ret.value.cols) :
               IsNull(ret.value.rows[j], c)
                 <=> (SourceIndex(CallMerged, ret.arg[1], j) <= FromBasic(CallCompactFile))

\* getRegularGames(compact=False) returned a row from the compact file, null
\* in a detailed-only column, followed by a row from the detailed file.
C9_Witness ==
    /\ ret.op = "getRegularGames"
    /\ ~ret.arg[2]
    /\ ret.status = "ok"
    /\ Len(ret.value.rows) = 2
    /\ "Wfgm" \in Range(ret.value.cols)
    /\ ret.value.rows[1]["Wfgm"] = NaN
    /\ ret.value.rows[2]["Wfgm"] # NaN

\* C10: getTourneyGames projects with the header row of the regular-season
\* compact (compact true) or detailed (compact false) file: it fails exactly
\* when a header of that row is a column of neither tournament file, returns
\* that row as its columns otherwise, and so returns the corresponding
\* tournament file's own header row only when the two rows are the same.
C10_TourneyProjectedWithRegularHeaders ==
    ret.op = "getTourneyGames" =>
        LET headers == IF ret.arg[2] THEN RegularCompactFile.cols ELSE RegularDetailedFile.cols
            own     == IF ret.arg[2] THEN TourneyCompactFile.cols ELSE TourneyDetailedFile.cols
            columns == Range(TourneyCompactFile.cols) \cup Range(TourneyDetailedFile.cols)
        IN  /\ (ret.status = "KeyError") <=> ~(Range(headers) \subseteq columns)
            /\ ret.status # "KeyError" =>
                 /\ ret.status = "ok"
                 /\ ret.value.cols = headers
                 /\ (ret.value.cols = own) => (own = headers)

\* getTourneyGames failed because the regular-season header row names a
\* column no tournament file has.
C10_Witness ==
    /\ ret.op = "getTourneyGames"
    /\ ret.status = "KeyError"
    /\ "Numot" \in Range(RegularCompactFile.cols)
    /\ "Numot" \notin Range(TourneyCompactFile.cols) \cup Range(TourneyDetailedFile.cols)

====
